---- MODULE Spec2Model ----
(***************************************************************************)
(* Model of create_chart (src/chart_creator.py): one invocation of the     *)
(* batch pipeline load -> SMA -> lookback filter -> reset_index ->         *)
(* up/down split -> month ticks -> trend status -> savefig.                *)
(*                                                                         *)
(* A DataFrame is a sequence of rows; a row is a record with its index     *)
(* label, its Date (a calendar date), Open, Close and, once computed, the  *)
(* SMA column.  High, Low, Vol and OI only feed the plotting calls and are *)
(* left out.  Prices are positive integers (the numeric bars of the data   *)
(* model); the moving average is kept as an exact fraction num/den, so the *)
(* comparisons against 0.005 are exact.                                    *)
(***************************************************************************)
EXTENDS Integers, Sequences, FiniteSets, TLC

VARIABLES step, outcome, data_file_exists, fault, raw, years,
          df, up, down, month_starts, tick_labels,
          status_text, status_color, written

vars == <<step, outcome, data_file_exists, fault, raw, years,
          df, up, down, month_starts, tick_labels,
          status_text, status_color, written>>

(***************************************************************************)
(* Bounds of the model.  lookback_window is 150 and first_label_limit is   *)
(* 20 in the source; both are scaled down so that series of a few bars     *)
(* reach both sides of them.                                               *)
(***************************************************************************)
MaxBars == 4
lookback_window == 2
first_label_limit == 2

(* A float is either NaN or the exact fraction num/den. *)
NaN == [nan |-> TRUE, num |-> 0, den |-> 1]
Frac(n, d) == [nan |-> FALSE, num |-> n, den |-> d]
notna(x) == ~x.nan
UP_COLOR == "#15ff25"
DOWN_COLOR == "#ff8486"
YELLOW == "#ffff00"

(***************************************************************************)
(* Calendar dates.  A Date is [year, month, day]; comparison and Timedelta *)
(* arithmetic go through the proleptic Gregorian day number.               *)
(***************************************************************************)
IsLeap(y) == (y % 4 = 0) /\ ((y % 100 # 0) \/ (y % 400 = 0))

DaysInMonth(y, m) ==
    IF m = 2 THEN (IF IsLeap(y) THEN 29 ELSE 28)
    ELSE IF m \in {4, 6, 9, 11} THEN 30 ELSE 31

DaysBeforeMonth(y, m) ==
    <<0, 31, 59, 90, 120, 151, 181, 212, 243, 273, 304, 334>>[m]
        + (IF m > 2 /\ IsLeap(y) THEN 1 ELSE 0)

ToOrdinal(dt) ==
    LET y == dt.year - 1
    IN  y * 365 + (y \div 4) - (y \div 100) + (y \div 400)
        + DaysBeforeMonth(dt.year, dt.month) + dt.day

MonthAbbr == <<"Jan", "Feb", "Mar", "Apr", "May", "Jun",
               "Jul", "Aug", "Sep", "Oct", "Nov", "Dec">>

D(y, m, d) == [year |-> y, month |-> m, day |-> d]

(***************************************************************************)
(* Inputs.  Two families of raw tables of at most MaxBars rows:            *)
(*   - dates vary freely (any order, repeats allowed), prices follow the   *)
(*     row's position in the file;                                         *)
(*   - closes vary freely, dates are consecutive days in file order.       *)
(* The dates sit on both sides of the 365-day cutoff (2023-01-10 is        *)
(* exactly 365 days before 2024-01-10) and of month and year boundaries.   *)
(* The closes give (c - m)/m below, on, at and above +-0.005 when the      *)
(* window is 2: 199 then 201 is exactly +0.005.                            *)
(***************************************************************************)
Dates == { D(2023, 1, 10), D(2023, 1, 11), D(2023, 12, 29),
           D(2024, 1, 10), D(2024, 2, 1) }
Closes == {199, 200, 201, 202}
Years == {-1, 0, 1}

SeqsUpTo(S, n) == UNION { [1..k -> S] : k \in 0..n }

DateFamily ==
    { [k \in 1..Len(ds) |-> [Date |-> ds[k], Open |-> 200, Close |-> 198 + k]]
        : ds \in SeqsUpTo(Dates, MaxBars) }

PriceDate(k) == IF k <= 3 THEN D(2024, 1, 28 + k) ELSE D(2024, 2, k - 3)

PriceFamily ==
    { [k \in 1..Len(cs) |-> [Date |-> PriceDate(k), Open |-> 200, Close |-> cs[k]]]
        : cs \in SeqsUpTo(Closes, MaxBars) }

RawInputs == DateFamily \cup PriceFamily

(***************************************************************************)
(* The statements of create_chart in program order.  step is the position  *)
(* of the next stage to run; outcome is "running" until the call ends.     *)
(***************************************************************************)
(* Mutant: the figure is saved before the trend status is determined. *)
Stages_save_early == <<"load", "sma", "filter", "reset_index", "classify",
                       "ticks", "save", "status">>

Stages == <<"load", "sma", "filter", "reset_index", "classify",
            "ticks", "status", "save">>

At(stage) == outcome = "running" /\ step \in 1..Len(Stages) /\ Stages[step] = stage

StageIndex(stage) == CHOOSE k \in 1..Len(Stages) : Stages[k] = stage

Done(stage) == step > StageIndex(stage)

(* The call completes when its last statement has run. *)
NextOutcome == IF step = Len(Stages) THEN "completed" ELSE outcome

(***************************************************************************)
(* pd.read_csv / the DataFrame built from the download give the rows a     *)
(* RangeIndex 0..n-1 in file order; sort_values('Date') reorders the rows  *)
(* and keeps their labels.  The default sort kind is not stable, so rows   *)
(* of equal date may come out in any order.                                *)
(***************************************************************************)
WithIndex(rows) ==
    [k \in 1..Len(rows) |->
        [index |-> k - 1, Date |-> rows[k].Date,
         Open |-> rows[k].Open, Close |-> rows[k].Close]]

RECURSIVE SortedOrders(_, _)
SortedOrders(rows, S) ==
    IF S = {} THEN { <<>> }
    ELSE LET least == { i \in S : \A j \in S :
                          ToOrdinal(rows[i].Date) <= ToOrdinal(rows[j].Date) }
         IN  UNION { { <<rows[i]>> \o t : t \in SortedOrders(rows, S \ {i}) }
                     : i \in least }

(* Mutant: the rows are left in file order. *)
sort_values_unsorted(rows) == { rows }

sort_values(rows) == SortedOrders(rows, 1..Len(rows))

(***************************************************************************)
(* df['Close'].rolling(window).mean(): undefined for the first window-1    *)
(* positions, then the mean of the trailing window closes.                 *)
(***************************************************************************)
RECURSIVE SumClose(_, _, _)
SumClose(rows, lo, hi) ==
    IF lo > hi THEN 0 ELSE rows[hi].Close + SumClose(rows, lo, hi - 1)

(* Mutant: the first average appears one position late. *)
rolling_mean_late(rows, k) ==
    IF k <= lookback_window THEN NaN
    ELSE Frac(SumClose(rows, k - lookback_window + 1, k), lookback_window)

rolling_mean(rows, k) ==
    IF k < lookback_window THEN NaN
    ELSE Frac(SumClose(rows, k - lookback_window + 1, k), lookback_window)

WithSMA(rows) ==
    [k \in 1..Len(rows) |->
        [index |-> rows[k].index, Date |-> rows[k].Date,
         Open |-> rows[k].Open, Close |-> rows[k].Close,
         SMA |-> rolling_mean(rows, k)]]

(***************************************************************************)
(* cutoff_date = df['Date'].max() - Timedelta(days=years*365);             *)
(* df = df[df['Date'] > cutoff_date]                                       *)
(***************************************************************************)
MaxOrdinal(rows) ==
    CHOOSE m \in { ToOrdinal(rows[k].Date) : k \in 1..Len(rows) } :
        \A k \in 1..Len(rows) : ToOrdinal(rows[k].Date) <= m

(* Mutant: a bar dated exactly at the cutoff is kept. *)
lookback_filter_ge(rows, y) ==
    IF rows = <<>> THEN rows
    ELSE LET cutoff_date == MaxOrdinal(rows) - y * 365
             Keep(r) == ToOrdinal(r.Date) >= cutoff_date
         IN  SelectSeq(rows, Keep)

(* Mutant: a filter that would drop every bar is skipped. *)
lookback_filter_keep_nonempty(rows, y) ==
    IF rows = <<>> THEN rows
    ELSE LET cutoff_date == MaxOrdinal(rows) - y * 365
             Keep(r) == ToOrdinal(r.Date) > cutoff_date
         IN  IF SelectSeq(rows, Keep) = <<>> THEN rows ELSE SelectSeq(rows, Keep)

lookback_filter(rows, y) ==
    IF rows = <<>> THEN rows
    ELSE LET cutoff_date == MaxOrdinal(rows) - y * 365
             Keep(r) == ToOrdinal(r.Date) > cutoff_date
         IN  SelectSeq(rows, Keep)

(* Mutant: the index labels of the sorted table are kept. *)
reset_index_keep(rows) == rows

reset_index(rows) ==
    [k \in 1..Len(rows) |-> [rows[k] EXCEPT !.index = k - 1]]

(***************************************************************************)
(* up = df[df.Close >= df.Open]; down = df[df.Close < df.Open]             *)
(***************************************************************************)
IsUp(r) == r.Close >= r.Open
(* Mutant: a bar with close equal to open also counts as down. *)
IsDown_le(r) == r.Close <= r.Open

IsDown(r) == r.Close < r.Open

(***************************************************************************)
(* month_starts: the positions 1..len-1 whose month differs from the       *)
(* previous row's, with 0 put in front when the list is empty or starts    *)
(* beyond the limit.                                                       *)
(***************************************************************************)
MonthChanges(rows) ==
    LET idx == [i \in 1..(Len(rows) - 1) |-> i]
        Changed(i) == rows[i + 1].Date.month # rows[i].Date.month
    IN  SelectSeq(idx, Changed)

(* Mutant: a first boundary exactly at the limit also forces the tick at 0. *)
NeedsFirstTick_ge(ms) == ms = <<>> \/ ms[1] >= first_label_limit

NeedsFirstTick(ms) == ms = <<>> \/ ms[1] > first_label_limit

compute_month_starts(rows) ==
    LET ms == MonthChanges(rows)
    IN  IF NeedsFirstTick(ms) THEN <<0>> \o ms ELSE ms

(***************************************************************************)
(* date_fmt(x): the label of tick x, as its lines of text.  The condition  *)
(* at line 162 parses as (month == 1 and year changed) if idx > 0 else     *)
(* True.                                                                   *)
(***************************************************************************)
ShowYear(rows, idx) ==
    IF idx > 0
    THEN rows[idx + 1].Date.month = 1
         /\ rows[idx].Date.year # rows[idx + 1].Date.year
    ELSE TRUE

date_fmt(rows, idx) ==
    IF 0 <= idx /\ idx < Len(rows)
    THEN LET dt == rows[idx + 1].Date
         IN  IF ShowYear(rows, idx)
             THEN <<MonthAbbr[dt.month], ToString(dt.year)>>
             ELSE <<MonthAbbr[dt.month]>>
    ELSE <<>>

(***************************************************************************)
(* Trend status of the last row: diff_pct = (last_close - last_sma) /      *)
(* last_sma compared with -0.005 and 0.005.  With last_sma = num/den > 0,  *)
(* diff_pct = (last_close*den - num) / num, and the comparisons are        *)
(* cross-multiplied by 1000*num.                                           *)
(***************************************************************************)
DiffBelow(c, m) == (c * m.den - m.num) * 1000 < -5 * m.num
(* Mutant: the band around the average excludes its two end points. *)
DiffAbsWithin_strict(c, m) ==
    LET d == (c * m.den - m.num) * 1000
    IN  (IF d < 0 THEN -d ELSE d) < 5 * m.num

DiffAbsWithin(c, m) ==
    LET d == (c * m.den - m.num) * 1000
    IN  (IF d < 0 THEN -d ELSE d) <= 5 * m.num

StatusLabel(word) == word \o " (" \o ToString(lookback_window) \o ") SMA"

trend_status(last_close, last_sma) ==
    IF ~notna(last_sma) THEN [text |-> "", color |-> UP_COLOR]
    ELSE IF DiffBelow(last_close, last_sma)
         THEN [text |-> StatusLabel("Below"), color |-> DOWN_COLOR]
    ELSE IF DiffAbsWithin(last_close, last_sma)
         THEN [text |-> StatusLabel("On"), color |-> YELLOW]
    ELSE [text |-> StatusLabel("Above"), color |-> UP_COLOR]

----
Init ==
    /\ step = 1
    /\ outcome = "running"
    /\ data_file_exists \in BOOLEAN
    /\ fault \in {"none", "exception"}
    /\ raw \in (IF fault = "none" THEN RawInputs ELSE { <<>> })
    /\ years \in Years
    /\ df = <<>>
    /\ up = <<>>
    /\ down = <<>>
    /\ month_starts = <<>>
    /\ tick_labels = <<>>
    /\ status_text = ""
    /\ status_color = UP_COLOR
    /\ written = FALSE

(* Lines 25-81: download or read the table; every failure prints and returns. *)
Load ==
    /\ At("load")
    /\ IF fault = "exception" \/ (~data_file_exists /\ raw = <<>>)
       THEN /\ outcome' = "returned"
            /\ UNCHANGED <<step, df>>
       ELSE /\ df' \in sort_values(WithIndex(raw))
            /\ step' = step + 1
            /\ outcome' = NextOutcome
    /\ UNCHANGED <<data_file_exists, fault, raw, years, up, down, month_starts,
                   tick_labels, status_text, status_color, written>>

(* Lines 83-86. *)
ComputeSMA ==
    /\ At("sma")
    /\ df' = WithSMA(df)
    /\ step' = step + 1
    /\ outcome' = NextOutcome
    /\ UNCHANGED <<data_file_exists, fault, raw, years, up, down,
                   month_starts, tick_labels, status_text, status_color, written>>

(* Lines 88-92. *)
Filter ==
    /\ At("filter")
    /\ df' = lookback_filter(df, years)
    /\ step' = step + 1
    /\ outcome' = NextOutcome
    /\ UNCHANGED <<data_file_exists, fault, raw, years, up, down,
                   month_starts, tick_labels, status_text, status_color, written>>

(* Line 95. *)
ResetIndex ==
    /\ At("reset_index")
    /\ df' = reset_index(df)
    /\ step' = step + 1
    /\ outcome' = NextOutcome
    /\ UNCHANGED <<data_file_exists, fault, raw, years, up, down,
                   month_starts, tick_labels, status_text, status_color, written>>

(* Lines 107-108. *)
Classify ==
    /\ At("classify")
    /\ up' = SelectSeq(df, IsUp)
    /\ down' = SelectSeq(df, IsDown)
    /\ step' = step + 1
    /\ outcome' = NextOutcome
    /\ UNCHANGED <<data_file_exists, fault, raw, years, df,
                   month_starts, tick_labels, status_text, status_color, written>>

(* Lines 171-179. *)
Ticks ==
    /\ At("ticks")
    /\ month_starts' = compute_month_starts(df)
    /\ step' = step + 1
    /\ outcome' = NextOutcome
    /\ UNCHANGED <<data_file_exists, fault, raw, years, df, up, down,
                   tick_labels, status_text, status_color, written>>

(* Lines 185-201: df.iloc[-1] raises IndexError on an empty frame. *)
Status ==
    /\ At("status")
    /\ IF df = <<>>
       THEN /\ outcome' = "raised"
            /\ UNCHANGED <<step, status_text, status_color>>
       ELSE LET last == df[Len(df)]
                st == trend_status(last.Close, last.SMA)
            IN  /\ status_text' = st.text
                /\ status_color' = st.color
                /\ step' = step + 1
                /\ outcome' = NextOutcome
    /\ UNCHANGED <<data_file_exists, fault, raw, years, df, up, down,
                   month_starts, tick_labels, written>>

(* Lines 225-228: the figure is laid out (the formatter labels the ticks)  *)
(* and written to output_file.                                             *)
Save ==
    /\ At("save")
    /\ tick_labels' = [k \in 1..Len(month_starts) |-> date_fmt(df, month_starts[k])]
    /\ written' = TRUE
    /\ step' = step + 1
    /\ outcome' = NextOutcome
    /\ UNCHANGED <<data_file_exists, fault, raw, years, df, up, down,
                   month_starts, status_text, status_color>>

Next ==
    \/ Load
    \/ ComputeSMA
    \/ Filter
    \/ ResetIndex
    \/ Classify
    \/ Ticks
    \/ Status
    \/ Save

Spec == Init /\ [][Next]_vars

----
(***************************************************************************)
(* Vocabulary of the properties.                                           *)
(***************************************************************************)
Ord(r) == ToOrdinal(r.Date)
Prepared == Done("reset_index")
PlotSeries == 1..Len(df)

(* 1000 * (c - m) / m * m.num, for the last bar of the prepared series. *)
LastBar == df[Len(df)]
ScaledDiff == (LastBar.Close * LastBar.SMA.den - LastBar.SMA.num) * 1000
ScaledBand == 5 * LastBar.SMA.num
StatusKnown == Done("status") /\ df # <<>>

(* C1: when the last bar's average is undefined there is no status;        *)
(* otherwise the status is Below exactly when diff < -0.005, On exactly    *)
(* when -0.005 <= diff <= 0.005 and Above exactly when diff > 0.005.       *)
C1_TrendStatus ==
    StatusKnown =>
        IF ~notna(LastBar.SMA) THEN status_text = ""
        ELSE /\ status_text \in { StatusLabel("Below"), StatusLabel("On"),
                                  StatusLabel("Above") }
             /\ status_text = StatusLabel("Below") <=> ScaledDiff < -ScaledBand
             /\ status_text = StatusLabel("On")
                    <=> (-ScaledBand <= ScaledDiff /\ ScaledDiff <= ScaledBand)
             /\ status_text = StatusLabel("Above") <=> ScaledDiff > ScaledBand

C1_Witness ==
    /\ StatusKnown
    /\ notna(LastBar.SMA)
    /\ ScaledDiff = ScaledBand
    /\ status_text = StatusLabel("On")

(* C2: in the date-sorted input, the average at 0-based position i is      *)
(* defined iff i >= window-1 and is then the mean of the closes at         *)
(* positions i-window+1..i; the bars kept by the lookback filter carry the *)
(* averages of their positions in the whole sorted input.                  *)
RECURSIVE CloseSum(_, _, _)
CloseSum(s, lo, hi) == IF lo > hi THEN 0 ELSE s[lo].Close + CloseSum(s, lo + 1, hi)

C2_MovingAverage ==
    (Done("sma") /\ df # <<>>) =>
        \E s \in SortedOrders(raw, 1..Len(raw)) :
            LET off == Len(s) - Len(df)
            IN  \A j \in PlotSeries :
                    LET i == off + j - 1
                        m == df[j].SMA
                    IN  /\ df[j].Date = s[i + 1].Date
                        /\ df[j].Close = s[i + 1].Close
                        /\ notna(m) <=> i >= lookback_window - 1
                        /\ notna(m) =>
                              m.num * lookback_window
                                = m.den * CloseSum(s, i - lookback_window + 2, i + 1)

C2_Witness ==
    /\ Done("filter")
    /\ df # <<>>
    /\ Len(df) < Len(raw)
    /\ notna(df[1].SMA)

(* C3: for a non-empty input the lookback filter keeps exactly the bars    *)
(* dated strictly after maxDate - years*365 days, in ascending date order. *)
Bar(r) == [Date |-> r.Date, Open |-> r.Open, Close |-> r.Close]
Occurrences(s, b) == Cardinality({ k \in 1..Len(s) : Bar(s[k]) = b })
RawMaxDate == CHOOSE m \in { Ord(raw[k]) : k \in 1..Len(raw) } :
                  \A k \in 1..Len(raw) : Ord(raw[k]) <= m
RawCutoff == RawMaxDate - years * 365

C3_LookbackFilter ==
    (Done("filter") /\ raw # <<>>) =>
        /\ \A j \in PlotSeries : \E k \in 1..Len(raw) : raw[k] = Bar(df[j])
        /\ LET cutoff == RawCutoff
           IN  \A k \in 1..Len(raw) :
                  Occurrences(df, raw[k])
                    = IF Ord(raw[k]) > cutoff THEN Occurrences(raw, raw[k]) ELSE 0
        /\ \A j, k \in PlotSeries : j < k => Ord(df[j]) <= Ord(df[k])

C3_Witness ==
    /\ Done("filter")
    /\ df # <<>>
    /\ \E k \in 1..Len(raw) : Ord(raw[k]) = RawCutoff
    /\ \E k \in 1..Len(raw) : Ord(raw[k]) = RawCutoff + 1

(* C4: every bar of the prepared series, identified by its plot index, is  *)
(* in exactly one of the up group (close >= open) and the down group       *)
(* (close < open); a bar with close equal to open is in the up group.      *)
PlotIndices(s) == { s[k].index : k \in 1..Len(s) }
TimesIn(s, i) == Cardinality({ k \in 1..Len(s) : s[k].index = i })

C4_UpDownPartition ==
    Done("classify") =>
        /\ PlotIndices(up) \cap PlotIndices(down) = {}
        /\ PlotIndices(up) \cup PlotIndices(down) = PlotIndices(df)
        /\ \A j \in PlotSeries :
              /\ TimesIn(up, df[j].index) + TimesIn(down, df[j].index) = 1
              /\ df[j].Close >= df[j].Open <=> df[j].index \in PlotIndices(up)
              /\ df[j].Close < df[j].Open <=> df[j].index \in PlotIndices(down)
        /\ \A k \in 1..Len(up) : up[k] = df[up[k].index + 1]
        /\ \A k \in 1..Len(down) : down[k] = df[down[k].index + 1]

C4_Witness ==
    /\ Done("classify")
    /\ up # <<>>
    /\ down # <<>>
    /\ \E k \in 1..Len(up) : up[k].Close = up[k].Open

(* C5: for a non-empty prepared series the ticks are the indices i >= 1    *)
(* whose bar's month differs from the month of bar i-1, together with      *)
(* index 0 exactly when no such boundary lies at an index up to the limit  *)
(* (20 in the source: the first 20 places a boundary can take).            *)
TickSet == { month_starts[k] : k \in 1..Len(month_starts) }
MonthBoundary(i) ==
    i >= 1 /\ i < Len(df) /\ df[i + 1].Date.month # df[i].Date.month
EarlyBoundary == \E i \in 1..first_label_limit : MonthBoundary(i)

C6_TickLabels ==
    outcome = "completed" =>
        \A k \in 1..Len(month_starts) :
            LET dt == df[month_starts[k] + 1].Date
            IN  tick_labels[k] = IF dt.month = 1
                                 THEN <<"Jan", ToString(dt.year)>>
                                 ELSE <<MonthAbbr[dt.month]>>

(* C7, as claimed: whenever the series is empty after ingestion or after   *)
(* the lookback filter, the call ends by raising and writes no file.       *)
Ended == outcome # "running"
EmptyAfterIngestion == fault = "none" /\ raw = <<>>
EmptyAfterFilter ==
    /\ fault = "none"
    /\ raw # <<>>
    /\ LET cutoff == RawCutoff
       IN  \A k \in 1..Len(raw) : ~(Ord(raw[k]) > cutoff)
EmptySeries == EmptyAfterIngestion \/ EmptyAfterFilter

C7_EmptyRaises ==
    (EmptySeries /\ Ended) => (outcome = "raised" /\ ~written)

(* C7, amended: whenever the series is empty after ingestion or after the  *)
(* lookback filter, the file is never written and the call never           *)
(* completes: it ends with a printed error and a normal return when the    *)
(* download is empty, and by raising (the last-row lookup of the status    *)
(* stage) when a readable file has no rows or the filter drops every bar.  *)
C7_EmptyNeverSaved ==
    EmptySeries =>
        /\ ~written
        /\ outcome # "completed"
        /\ step <= StageIndex("status")
        /\ Ended =>
              outcome = IF ~data_file_exists /\ raw = <<>>
                        THEN "returned" ELSE "raised"

C7_Witness ==
    /\ EmptyAfterFilter
    /\ outcome = "raised"
    /\ Done("ticks")

(* C8: the file is written only by the last step, after every stage has    *)
(* completed; a run that fails at ingestion or later ends there, is never  *)
(* resumed and has written nothing.                                        *)
AllStagesDone == \A k \in 1..Len(Stages) : Done(Stages[k])

C8_WrittenLast ==
    /\ [](written => (outcome = "completed" /\ AllStagesDone))
    /\ [](outcome \in {"returned", "raised"} => ~written)
    /\ [][outcome = "running" /\ (written' => AllStagesDone')]_vars

C8_Witness ==
    /\ outcome = "raised"
    /\ Done("ticks")
    /\ raw # <<>>
    /\ ~written

(* C9: after preparation the plot indices of the n retained bars are       *)
(* 0..n-1, each equal to the bar's position in ascending date order.       *)
C9_PlotIndex ==
    Prepared =>
        /\ \A j \in PlotSeries : df[j].index = j - 1
        /\ PlotIndices(df) = 0..(Len(df) - 1)
        /\ \A j, k \in PlotSeries : df[j].index < df[k].index => Ord(df[j]) <= Ord(df[k])

C9_Witness ==
    /\ Prepared
    /\ Len(df) >= 2
    /\ Len(df) < Len(raw)
    /\ Ord(raw[1]) > Ord(raw[Len(raw)])
    /\ \E j \in 1..(Len(df) - 1) : Ord(df[j + 1]) - Ord(df[j]) > 1

(* C10, as claimed: for every input the prepared series is strictly        *)
(* increasing by date, so no two of its bars share a date.                 *)
C10_StrictlyIncreasing ==
    Prepared => \A j, k \in PlotSeries : j < k => Ord(df[j]) < Ord(df[k])

(* C10, amended: the prepared series is non-decreasing by date in plot     *)
(* index order, and strictly increasing when the dates of the input bars   *)
(* are pairwise distinct; bars that share a date are all kept.             *)
DistinctDates == \A j, k \in 1..Len(raw) : j # k => raw[j].Date # raw[k].Date

C10_Ascending ==
    Prepared =>
        /\ \A j, k \in PlotSeries : j < k => Ord(df[j]) <= Ord(df[k])
        /\ DistinctDates => \A j, k \in PlotSeries : j < k => Ord(df[j]) < Ord(df[k])

C10_Witness ==
    /\ Prepared
    /\ DistinctDates
    /\ Len(df) >= 3
    /\ Ord(raw[1]) > Ord(raw[2])

====
